---- MODULE Spec2Model ----
(***************************************************************************)
(* Model of the transcription-orchestration controller of audiotext        *)
(* (src/src/controllers/main_controller.py, class MainController).         *)
(*                                                                         *)
(* State: the controller's fields (transcription, _is_mic_recording,       *)
(* _whisperx_result), the filesystem the controller reads and writes, the  *)
(* position and locals of every worker thread, and the notifications the   *)
(* view has received.  One action per step of a handler; the external      *)
(* libraries (whisperx, pydub, speech_recognition, pytube, the OS) are      *)
(* nondeterministic choices over the outcomes they can produce.            *)
(***************************************************************************)
EXTENDS Naturals, Sequences, FiniteSets, TLC

(***************************************************************************)
(* Bounds of the model.                                                    *)
(***************************************************************************)
\* number of matching files in the directory "music" (K of a DIRECTORY request)
MaxFiles == 2
\* largest number of chunks split_on_silence returns for one file
MaxChunks == 2
\* largest number of segments one microphone recording captures
MaxSegments == 1
\* number of calls of prepare_for_transcription on one controller
MaxRequests == 2
\* number of worker-thread slots: requests that can be under way together
MaxThreads == 2

Threads == 1..MaxThreads

\* the UI thread, on which the view calls the controller
ViewThread == 0

(***************************************************************************)
(* Paths.  A pathlib.Path is modelled by its parsed parts: parent          *)
(* directory, stem and suffix.                                             *)
(***************************************************************************)
P(d, s, e) == [dir |-> d, stem |-> s, ext |-> e]

\* Transcription.source_path before a path has been resolved
NoPath == P("", "", "")

AUDIO_FILE_EXTENSIONS ==
  {".mp3", ".mpeg", ".wav", ".wma", ".aac", ".flac", ".ogg", ".oga", ".opus"}

VIDEO_FILE_EXTENSIONS ==
  {".mp4", ".m4a", ".m4v", ".f4v", ".f4a", ".m4b", ".m4r", ".f4b", ".mov",
   ".avi", ".webm", ".flv", ".mkv", ".3gp", ".3gp2", ".3g2", ".3gpp", ".3gpp2",
   ".ogv", ".ogx", ".wmv", ".asf"}

\* the matching files of the directory tree "music", in os.walk order; the
\* even ones are video files in a nested directory
MusicFile(i) ==
  IF i % 2 = 1 THEN P("music", "f" \o ToString(i), ".mp3")
               ELSE P("music/sub", "f" \o ToString(i), ".mp4")

\* a file whose extension is not on the allow-lists
NotesFile == P("docs", "notes", ".pdf")
MusicReadme == P("music", "readme", ".md")

\* fixed names of the temporary inputs
MicOutput == P(".", "mic-output", ".wav")
YtAudio == P(".", "yt-audio", ".mp3")

\* what os.walk(dir_path) yields, as the sequence of files it visits
Walk(dir_path) ==
  IF dir_path = P("", "music", "")
    THEN <<MusicReadme>> \o [i \in 1..MaxFiles |-> MusicFile(i)]
    ELSE IF dir_path = P("", "docs", "") THEN <<NotesFile>> ELSE <<>>

UserFiles == {MusicFile(i) : i \in 1..MaxFiles} \cup {NotesFile, MusicReadme}
AudioInputs == UserFiles \cup {MicOutput, YtAudio}

TxtOf(p) == P(p.dir, p.stem, ".txt")
SubOf(p, fmt) == P(p.dir, p.stem, "." \o fmt)

\* every path the controller can read or write
Paths ==
  AudioInputs \cup {TxtOf(p) : p \in AudioInputs}
              \cup {SubOf(p, fmt) : p \in AudioInputs, fmt \in {"srt", "vtt"}}

\* outputs of an earlier session that are on disk when the controller is
\* constructed: the transcript and one of the two subtitle files of MusicFile(1)
Preexisting == {TxtOf(MusicFile(1)), SubOf(MusicFile(1), "srt")}

\* content of a path: absent, or a file holding data
Absent == [exists |-> FALSE, data |-> ""]
File(d) == [exists |-> TRUE, data |-> d]

(***************************************************************************)
(* The Transcription record handed over by the view.                       *)
(***************************************************************************)
Transcription(src, path, url, m, sub, auto, over) ==
  [source |-> src, source_path |-> path, youtube_url |-> url, method |-> m,
   should_subtitle |-> sub, should_autosave |-> auto, should_overwrite |-> over,
   text |-> ""]

\* the requests the view can issue
Sources ==
  {<<"FILE", MusicFile(1), "">>, <<"FILE", NotesFile, "">>,
   <<"DIRECTORY", P("", "music", ""), "">>, <<"DIRECTORY", P("", "docs", ""), "">>,
   <<"MIC", NoPath, "">>,
   <<"YOUTUBE", NoPath, "https://youtu.be/v">>, <<"YOUTUBE", NoPath, "not-a-url">>}

Requests ==
  {Transcription(s[1], s[2], s[3], m, sub, auto, over) :
     s \in Sources, m \in {"WHISPERX", "GOOGLE_API"},
     sub \in BOOLEAN, auto \in BOOLEAN, over \in BOOLEAN}

\* _whisperx_result: None, or the result of model.transcribe / whisperx.align
\* for one file; req is the request that produced it
None == [none |-> TRUE, file |-> NoPath, aligned |-> FALSE, req |-> 0]
Result(f, al, r) == [none |-> FALSE, file |-> f, aligned |-> al, req |-> r]

VARIABLES
  transcription,      \* self.transcription
  is_mic_recording,   \* self._is_mic_recording
  whisperx_result,    \* self._whisperx_result
  fs,                 \* the files: path -> content
  chunks_directory,   \* whether ROOT_PATH / "audio-chunks" exists
  nreq,               \* number of prepare_for_transcription calls so far
  thr,                \* per worker thread: position, locals, and what it told the view
  lastSave            \* what the last call of save_transcription saw and did

vars == <<transcription, is_mic_recording, whisperx_result, fs, chunks_directory,
          nreq, thr, lastSave>>


(***************************************************************************)
(* The view: every call the controller makes on it is appended to the log  *)
(* of the request that made it.                                            *)
(***************************************************************************)
Ev(kind, s, n, m) == [ev |-> kind, success |-> s, pending |-> n, msg |-> m]
OnProcessing == Ev("on_processing_transcription", FALSE, 0, "")
\* pending: the number of per-file tasks of the request not yet finished
OnProcessed(s, n) == Ev("on_processed_transcription", s, n, "")
DisplayText(m) == Ev("display_text", FALSE, 0, m)
ViewStopRecording == Ev("stop_recording_from_mic", FALSE, 0, "")

\* what display_text shows that is not a transcription
BatchDone == "Files successfully transcribed."
Traceback == "Traceback (most recent call last)"
Reprs == {"ValueError", "TypeError", "OSError", "FileNotFoundError",
          "RuntimeError", "WaitTimeoutError", "PytubeError", "AttributeError"}

\* _handle_exception(e): on_processed_transcription(success=False), then
\* display_text(repr(e))
HandleException(log, e, n) == log \o <<OnProcessed(FALSE, n), DisplayText(e)>>

(***************************************************************************)
(* Worker threads.                                                         *)
(***************************************************************************)
IdleThread ==
  [pc |-> "idle",
   req |-> 0,                  \* the request this thread works for
   files |-> <<>>,             \* the files of the request, one task each
   i |-> 0,                    \* the task that is running
   exc |-> "",                 \* first exception raised out of a task
   text_combined |-> "",       \* local of _transcribe_using_whisperx
   transcription_text |-> "",  \* local of _transcribe_using_google_api
   nchunks |-> 0,              \* len(audio_chunks)
   idx |-> 0,                  \* loop index over audio_chunks
   audio_data |-> 0,           \* len(audio_data) in _record_from_mic
   log |-> <<>>,               \* calls on the view made for this request
   backend_calls |-> 0,        \* backend invocations of this request
   reached_transcribe |-> FALSE,  \* _transcribe_file was entered
   recog |-> <<>>,             \* per chunk of the running invocation: its text, "" if it raised
   made_dir |-> FALSE,         \* the running invocation created the chunks directory
   assigned |-> FALSE,         \* the running invocation reached line 339
   rmtree |-> "",              \* outcome of its shutil.rmtree: ok, fault, missing
   worker |-> FALSE,           \* _handle_transcription_process was started
   threads |-> 0,              \* threading.Thread(...).start() calls made for the request
   validation |-> "",          \* the validation error raised: file, directory or url
   stop_called |-> FALSE,      \* stop_recording_from_mic was called during the request
   unlinked |-> NoPath,        \* the file line 125 removed last
   own_text |-> "",            \* what the running task's backend assigned to transcription.text
   raised |-> FALSE]           \* an exception was raised while serving the request

Init ==
  /\ transcription = Transcription("FILE", NoPath, "", "WHISPERX", FALSE, FALSE, FALSE)
  /\ is_mic_recording = FALSE
  /\ whisperx_result = None
  /\ fs = [p \in Paths |->
             IF p \in UserFiles THEN File("media")
             ELSE IF p \in Preexisting THEN File("old") ELSE Absent]
  /\ chunks_directory = FALSE
  /\ nreq = 0
  /\ thr = [t \in Threads |-> IdleThread]
  /\ lastSave = [called |-> FALSE]

\* number of per-file tasks of thread t that have not finished
Pending(t) ==
  IF thr[t].i = 0 THEN 0 ELSE Len(thr[t].files) - thr[t].i + 1

\* Path.exists / is_file; a path that is not a file of the model is no file
Exists(p) == p \in DOMAIN fs /\ fs[p].exists

\* _is_file_valid
IsFileValid(file_path) ==
  LET is_audio == file_path.ext \in AUDIO_FILE_EXTENSIONS
      is_video == file_path.ext \in VIDEO_FILE_EXTENSIONS
  IN  fs[file_path].exists /\ (is_audio \/ is_video)

\* no request is being worked on
Quiescent == \A u \in Threads : thr[u].pc \in {"idle", "done"}

\* the position a new request's thread starts at: _handle_transcription_process,
\* _record_from_mic or _download_audio_from_yt_video
StartPc(source) ==
  CASE source = "MIC" -> "mic_start"
    [] source = "YOUTUBE" -> "yt_download"
    [] OTHER -> "hp_start"

\* line 63-86: the body of prepare_for_transcription(tr); t is the slot of the
\* thread it starts
Prepare(t, tr) ==
  /\ LET log0 == <<OnProcessing>>
         fresh == [IdleThread EXCEPT !.req = nreq + 1, !.log = log0]
     IN  /\ transcription' = tr
         /\ IF tr.source = "FILE" /\ ~IsFileValid(tr.source_path)
              THEN thr' = [thr EXCEPT ![t] =
                      [fresh EXCEPT !.pc = "done", !.raised = TRUE,
                                    !.validation = "file",
                                    !.log = HandleException(log0, "ValueError", 0)]]
              ELSE thr' = [thr EXCEPT ![t] = [fresh EXCEPT !.pc = StartPc(tr.source),
                                                           !.threads = 1]]
  /\ nreq' = nreq + 1
  /\ lastSave' = [called |-> FALSE]
  /\ UNCHANGED <<is_mic_recording, whisperx_result, fs, chunks_directory>>

\* prepare_for_transcription, called by the view on the UI thread once the
\* request before it has ended
prepare_for_transcription(t) ==
  /\ nreq < MaxRequests
  /\ Quiescent
  /\ t = CHOOSE u \in Threads : \A v \in Threads : u <= v
  /\ \E tr \in Requests : Prepare(t, tr)


(***************************************************************************)
(* Microphone capture: _record_from_mic on its own thread, and             *)
(* stop_recording_from_mic called by the view.                             *)
(***************************************************************************)
Upd(t, rec) == thr' = [thr EXCEPT ![t] = rec]

\* the positions of _record_from_mic up to the end of its capture loop
MicPcs == {"mic_start", "mic_loop", "mic_listen"}

\* line 353-354: the flag is raised by the recording thread itself
mic_start(t) ==
  /\ thr[t].pc = "mic_start"
  /\ is_mic_recording' = TRUE
  /\ Upd(t, [thr[t] EXCEPT !.pc = "mic_loop", !.audio_data = 0])
  /\ UNCHANGED <<transcription, whisperx_result, fs, chunks_directory, nreq, lastSave>>

\* line 360: while self._is_mic_recording
mic_loop(t) ==
  /\ thr[t].pc = "mic_loop"
  /\ ~is_mic_recording \/ thr[t].audio_data < MaxSegments
  /\ Upd(t, [thr[t] EXCEPT !.pc = IF is_mic_recording THEN "mic_listen" ELSE "mic_end",
                           !.stop_called = IF is_mic_recording THEN @ ELSE FALSE])
  /\ UNCHANGED <<transcription, is_mic_recording, whisperx_result, fs,
                 chunks_directory, nreq, lastSave>>

\* line 361-362: r.listen returns a segment, or raises (WaitTimeoutError);
\* line 379-381: the handler of every exception of _record_from_mic
mic_listen(t) ==
  /\ thr[t].pc = "mic_listen"
  /\ \E heard \in BOOLEAN :
       IF heard
         THEN Upd(t, [thr[t] EXCEPT !.pc = "mic_loop", !.audio_data = @ + 1])
         ELSE Upd(t, [thr[t] EXCEPT
                 !.pc = "done", !.raised = TRUE, !.stop_called = FALSE,
                 !.log = HandleException(@ \o <<ViewStopRecording>>, "WaitTimeoutError", 0)])
  /\ UNCHANGED <<transcription, is_mic_recording, whisperx_result, fs,
                 chunks_directory, nreq, lastSave>>

\* the end of the recording without the test of line 364
mic_end_Unchecked(t) ==
  /\ thr[t].pc = "mic_end"
  /\ fs' = [fs EXCEPT ![MicOutput] = File("media")]
  /\ transcription' = [transcription EXCEPT !.source_path = MicOutput]
  /\ Upd(t, [thr[t] EXCEPT !.pc = "hp_start", !.threads = @ + 1])
  /\ UNCHANGED <<is_mic_recording, whisperx_result, chunks_directory, nreq, lastSave>>

\* line 364-377: write the recording and start the transcription worker, or
\* report "No audio detected"
mic_end(t) ==
  /\ thr[t].pc = "mic_end"
  /\ IF thr[t].audio_data > 0
       THEN /\ fs' = [fs EXCEPT ![MicOutput] = File("media")]
            /\ transcription' = [transcription EXCEPT !.source_path = MicOutput]
            /\ Upd(t, [thr[t] EXCEPT !.pc = "hp_start", !.threads = @ + 1])
       ELSE /\ Upd(t, [thr[t] EXCEPT !.pc = "done", !.raised = TRUE,
                         !.log = HandleException(@, "ValueError", 0)])
            /\ UNCHANGED <<fs, transcription>>
  /\ UNCHANGED <<is_mic_recording, whisperx_result, chunks_directory, nreq, lastSave>>

\* stop_recording_from_mic, called by the view while a MIC request is under way
stop_recording_from_mic ==
  /\ \E t \in Threads : thr[t].pc \in MicPcs
  /\ is_mic_recording' = FALSE
  /\ thr' = [u \in Threads |->
               IF thr[u].pc \in MicPcs THEN [thr[u] EXCEPT !.stop_called = TRUE]
                                       ELSE thr[u]]
  /\ UNCHANGED <<transcription, whisperx_result, fs, chunks_directory, nreq, lastSave>>

(***************************************************************************)
(* YouTube acquisition: _download_audio_from_yt_video on its own thread.   *)
(***************************************************************************)
\* YouTube(url) raises RegexMatchError for a malformed URL
IsUrlValid(url) == url = "https://youtu.be/v"

yt_download(t) ==
  /\ thr[t].pc = "yt_download"
  /\ IF ~IsUrlValid(transcription.youtube_url)
       THEN /\ Upd(t, [thr[t] EXCEPT !.pc = "done", !.raised = TRUE,
                         !.validation = "url",
                         !.log = HandleException(@, "ValueError", 0)])
            /\ UNCHANGED <<fs, transcription>>
       ELSE \E outcome \in {"file", "nothing", "raise"} :
              CASE outcome = "file" ->
                     /\ fs' = [fs EXCEPT ![YtAudio] = File("media")]
                     /\ transcription' = [transcription EXCEPT !.source_path = YtAudio]
                     /\ Upd(t, [thr[t] EXCEPT !.pc = "hp_start", !.threads = @ + 1])
                [] outcome = "nothing" ->
                     /\ Upd(t, [thr[t] EXCEPT !.pc = "done"])
                     /\ UNCHANGED <<fs, transcription>>
                [] outcome = "raise" ->
                     /\ Upd(t, [thr[t] EXCEPT !.pc = "done", !.raised = TRUE,
                                  !.log = HandleException(@, "PytubeError", 0)])
                     /\ UNCHANGED <<fs, transcription>>
  /\ UNCHANGED <<is_mic_recording, whisperx_result, chunks_directory, nreq, lastSave>>


(***************************************************************************)
(* save_transcription and _generate_subtitles, as functions of the files.  *)
(***************************************************************************)
\* line 161 and line 392: the overwrite policy
ShouldWrite_Always(should_overwrite, exists) == TRUE
ShouldWrite(should_overwrite, exists) == should_overwrite \/ ~exists

\* what the subtitle writer puts in a file for a result
SubData(result) ==
  "captions of " \o result.file.stem \o
    (IF result.aligned THEN " (aligned)" ELSE " (segments)")

\* one iteration of the loop of _generate_subtitles (line 389-403); st is
\* [fs, raised, wrote]
SubtitleStep(st, file_path, should_overwrite, fmt) ==
  LET path_to_check == SubOf(file_path, fmt)
  IN  IF st.raised # "" \/ ~ShouldWrite(should_overwrite, st.fs[path_to_check].exists)
        THEN st
        ELSE IF whisperx_result.none
               THEN [st EXCEPT !.raised = "TypeError"]
               ELSE [st EXCEPT !.fs[path_to_check] = File(SubData(whisperx_result)),
                               !.wrote = @ \cup {fmt}]

GenerateSubtitles(f, file_path, should_overwrite) ==
  LET st0 == [fs |-> f, raised |-> "", wrote |-> {}]
      st1 == SubtitleStep(st0, file_path, should_overwrite, "srt")
  IN  SubtitleStep(st1, file_path, should_overwrite, "vtt")

\* save_transcription(file_path, should_autosave, should_overwrite); chosen is
\* what the save dialog returns when should_autosave is false: "" if cancelled.
\* The result is [fs, raised, wrote, dest].
SaveTranscription(file_path, should_autosave, should_overwrite, chosen) ==
  LET txt_file_path == IF should_autosave THEN TxtOf(file_path) ELSE chosen
  IN  IF txt_file_path = NoPath
        THEN [fs |-> fs, raised |-> "", wrote |-> {}, dest |-> NoPath]
        ELSE LET f1 == IF ShouldWrite(should_overwrite, fs[txt_file_path].exists)
                         THEN [fs EXCEPT ![txt_file_path] = File(transcription.text)]
                         ELSE fs
                 st == IF transcription.should_subtitle
                         THEN GenerateSubtitles(f1, txt_file_path, should_overwrite)
                         ELSE [fs |-> f1, raised |-> "", wrote |-> {}]
             IN  [fs |-> st.fs, raised |-> st.raised, wrote |-> st.wrote,
                  dest |-> txt_file_path]

\* the record of a call of save_transcription
SaveRecord(by, file_path, should_overwrite, r) ==
  [called |-> TRUE, by |-> by, file |-> file_path, dest |-> r.dest,
   overwrite |-> should_overwrite,
   existed |-> IF r.dest = NoPath THEN FALSE ELSE fs[r.dest].exists,
   before |-> IF r.dest = NoPath THEN "" ELSE fs[r.dest].data,
   sub_before |-> [fmt \in {"srt", "vtt"} |->
                     IF r.dest = NoPath THEN Absent ELSE fs[SubOf(r.dest, fmt)]],
   text |-> transcription.text,
   produced |-> IF by \in Threads THEN thr[by].own_text ELSE "",
   should_subtitle |-> transcription.should_subtitle,
   method |-> transcription.method,
   result |-> whisperx_result,
   req |-> nreq,
   wrote |-> r.wrote, raised |-> r.raised]

\* the view's "save" button, offered once a request has produced a text:
\* save_transcription(source_path, False, overwrite) with the destination
\* picked in the dialog (the proposed one, or none when cancelled)
save_transcription ==
  /\ Quiescent
  /\ \E t \in Threads : thr[t].pc = "done" /\ thr[t].worker
  /\ transcription.text # ""
  /\ transcription.source_path \in AudioInputs
  /\ \E should_overwrite \in BOOLEAN,
        chosen \in {TxtOf(transcription.source_path), NoPath} :
       LET r == SaveTranscription(transcription.source_path, FALSE,
                                  should_overwrite, chosen)
       IN  /\ fs' = r.fs
           /\ lastSave' = SaveRecord(ViewThread, transcription.source_path,
                                     should_overwrite, r)
  /\ UNCHANGED <<transcription, is_mic_recording, whisperx_result,
                 chunks_directory, nreq, thr>>


(***************************************************************************)
(* _handle_transcription_process and _transcribe_file.  The per-file       *)
(* coroutines never suspend (every call in them is a blocking call), so    *)
(* the event loop runs the tasks one after the other, in list order, and   *)
(* delivers the first exception of a task to the awaiting coroutine only   *)
(* after the last task has run.                                            *)
(***************************************************************************)
\* the scan without the extension test of line 217
GetTranscribableFilesFromDir_NoFilter(dir_path) == Walk(dir_path)

\* Path.name: the last component, stem and suffix together
FileName(p) == p.stem \o p.ext

\* str.endswith(suffix)
EndsWith(str, suffix) ==
  /\ Len(str) >= Len(suffix)
  /\ SubSeq(str, Len(str) - Len(suffix) + 1, Len(str)) = suffix

\* line 212-220, applied to the files os.walk visits: the test of line 217 is
\* on the file name as a string
MatchingFiles(walk) ==
  LET matching_extensions == AUDIO_FILE_EXTENSIONS \cup VIDEO_FILE_EXTENSIONS
      Matches(file) == \E ext \in matching_extensions : EndsWith(FileName(file), ext)
  IN  SelectSeq(walk, Matches)

\* _get_transcribable_files_from_dir
GetTranscribableFilesFromDir(dir_path) == MatchingFiles(Walk(dir_path))

\* the file the running task of thread t transcribes
FilePath(t) == thr[t].files[thr[t].i]

\* the end of a task: the next task runs, or the awaiting coroutine resumes
TaskEnd(rec) ==
  IF rec.i < Len(rec.files)
    THEN [rec EXCEPT !.i = @ + 1, !.pc = "tf_dispatch"]
    ELSE [rec EXCEPT !.i = 0, !.pc = "hp_resume"]

\* a task that ends by raising e
TaskRaised(rec, e) ==
  TaskEnd([rec EXCEPT !.exc = IF @ = "" THEN e ELSE @, !.raised = TRUE])

\* line 90-109, up to the start of the first task
hp_start(t) ==
  /\ thr[t].pc = "hp_start"
  /\ LET path == transcription.source_path
         files == IF transcription.source = "DIRECTORY"
                    THEN GetTranscribableFilesFromDir(path)
                    ELSE <<path>>
     IN  IF files # <<>>
           THEN Upd(t, [thr[t] EXCEPT !.worker = TRUE, !.files = files, !.i = 1,
                                     !.pc = "tf_dispatch"])
           ELSE Upd(t, [thr[t] EXCEPT !.worker = TRUE, !.raised = TRUE,
                                     !.validation = "directory",
                                     !.exc = "ValueError", !.pc = "hp_except"])
  /\ UNCHANGED <<transcription, is_mic_recording, whisperx_result, fs,
                 chunks_directory, nreq, lastSave>>

\* line 119-122: the backend is chosen by transcription.method
tf_dispatch(t) ==
  /\ thr[t].pc = "tf_dispatch"
  /\ Upd(t, [thr[t] EXCEPT
        !.pc = IF transcription.method = "WHISPERX" THEN "wx_transcribe" ELSE "g_mkdir",
        !.reached_transcribe = TRUE,
        !.backend_calls = @ + 1,
        !.text_combined = "", !.transcription_text = "", !.own_text = "",
        !.nchunks = 0, !.idx = 0, !.recog = <<>>,
        !.made_dir = FALSE, !.assigned = FALSE, !.rmtree = ""])
  /\ UNCHANGED <<transcription, is_mic_recording, whisperx_result, fs,
                 chunks_directory, nreq, lastSave>>

\* the removal applied to the file the task was given
tf_unlink_FilePath(t) ==
  /\ thr[t].pc = "tf_unlink"
  /\ IF transcription.source \in {"MIC", "YOUTUBE"}
       THEN IF Exists(FilePath(t))
              THEN /\ fs' = [fs EXCEPT ![FilePath(t)] = Absent]
                   /\ Upd(t, [thr[t] EXCEPT !.pc = "tf_autosave",
                                            !.unlinked = FilePath(t)])
              ELSE /\ Upd(t, TaskRaised(thr[t],
                            IF FilePath(t) = NoPath
                              THEN "AttributeError" ELSE "FileNotFoundError"))
                   /\ UNCHANGED fs
       ELSE /\ Upd(t, [thr[t] EXCEPT !.pc = "tf_autosave"])
            /\ UNCHANGED fs
  /\ UNCHANGED <<transcription, is_mic_recording, whisperx_result,
                 chunks_directory, nreq, lastSave>>

\* line 124-125: the temporary input of a MIC or YOUTUBE request is removed;
\* source and source_path are read from the shared record at that moment
tf_unlink(t) ==
  /\ thr[t].pc = "tf_unlink"
  /\ IF transcription.source \in {"MIC", "YOUTUBE"}
       THEN IF Exists(transcription.source_path)
              THEN /\ fs' = [fs EXCEPT ![transcription.source_path] = Absent]
                   /\ Upd(t, [thr[t] EXCEPT !.pc = "tf_autosave",
                                            !.unlinked = transcription.source_path])
              ELSE /\ Upd(t, TaskRaised(thr[t],
                            IF transcription.source_path = NoPath
                              THEN "AttributeError" ELSE "FileNotFoundError"))
                   /\ UNCHANGED fs
       ELSE /\ Upd(t, [thr[t] EXCEPT !.pc = "tf_autosave"])
            /\ UNCHANGED fs
  /\ UNCHANGED <<transcription, is_mic_recording, whisperx_result,
                 chunks_directory, nreq, lastSave>>

\* line 127-132: autosave
tf_autosave(t) ==
  /\ thr[t].pc = "tf_autosave"
  /\ IF transcription.should_autosave
       THEN LET r == SaveTranscription(FilePath(t), TRUE,
                                       transcription.should_overwrite, NoPath)
            IN  /\ fs' = r.fs
                /\ lastSave' = SaveRecord(t, FilePath(t),
                                          transcription.should_overwrite, r)
                /\ Upd(t, IF r.raised # "" THEN TaskRaised(thr[t], r.raised)
                                           ELSE TaskEnd(thr[t]))
       ELSE /\ Upd(t, TaskEnd(thr[t]))
            /\ UNCHANGED <<fs, lastSave>>
  /\ UNCHANGED <<transcription, is_mic_recording, whisperx_result,
                 chunks_directory, nreq>>

\* line 98-109: the awaiting coroutine resumes after the tasks
hp_resume(t) ==
  /\ thr[t].pc = "hp_resume"
  /\ IF thr[t].exc # ""
       THEN Upd(t, [thr[t] EXCEPT !.pc = "hp_except"])
       ELSE Upd(t, [thr[t] EXCEPT
               !.pc = "hp_finally",
               !.log = IF transcription.source = "DIRECTORY"
                         THEN @ \o <<DisplayText(BatchDone)>> ELSE @])
  /\ UNCHANGED <<transcription, is_mic_recording, whisperx_result, fs,
                 chunks_directory, nreq, lastSave>>

\* line 111-112
hp_except(t) ==
  /\ thr[t].pc = "hp_except"
  /\ Upd(t, [thr[t] EXCEPT !.pc = "hp_finally",
                           !.log = HandleException(@, thr[t].exc, Pending(t))])
  /\ UNCHANGED <<transcription, is_mic_recording, whisperx_result, fs,
                 chunks_directory, nreq, lastSave>>

\* line 115-116: the value passed as success
FinallySuccess(text) ==
  LET is_transcription_empty == (text = "")
  IN  is_transcription_empty

\* line 114-116
hp_finally(t) ==
  /\ thr[t].pc = "hp_finally"
  /\ Upd(t, [thr[t] EXCEPT
        !.pc = "done",
        !.log = @ \o <<OnProcessed(FinallySuccess(transcription.text), Pending(t))>>])
  /\ UNCHANGED <<transcription, is_mic_recording, whisperx_result, fs,
                 chunks_directory, nreq, lastSave>>


(***************************************************************************)
(* _transcribe_using_whisperx.                                             *)
(***************************************************************************)
\* a segment of the model's output: its text with leading and trailing blanks
Segment(lead, body, trail) == [lead |-> lead, body |-> body, trail |-> trail]
Strip(seg) == seg.body

\* " ".join(...)
RECURSIVE JoinSpace(_)
JoinSpace(texts) ==
  IF texts = <<>> THEN ""
  ELSE IF Len(texts) = 1 THEN texts[1]
  ELSE texts[1] \o " " \o JoinSpace(Tail(texts))

\* what model.transcribe can return for a file: nothing, or two segments
SegmentsOf(file_path) ==
  {<<>>, <<Segment(" ", "words of " \o file_path.stem, ""),
           Segment(" ", "the end", " ")>>}

\* line 229-245: load_model, load_audio, transcribe; line 266-267 on failure
wx_transcribe(t) ==
  /\ thr[t].pc = "wx_transcribe"
  /\ \/ /\ Upd(t, [thr[t] EXCEPT !.pc = "tf_unlink", !.raised = TRUE,
                     !.log = HandleException(@, "RuntimeError", Pending(t))])
        /\ UNCHANGED whisperx_result
     \/ \E segments \in SegmentsOf(FilePath(t)) :
          /\ Exists(FilePath(t))
          /\ whisperx_result' = Result(FilePath(t), FALSE, thr[t].req)
          /\ Upd(t, [thr[t] EXCEPT
                !.text_combined = JoinSpace([k \in 1..Len(segments) |-> Strip(segments[k])]),
                !.pc = IF transcription.should_subtitle THEN "wx_align" ELSE "wx_settext"])
  /\ UNCHANGED <<transcription, is_mic_recording, fs, chunks_directory, nreq, lastSave>>

\* line 248-259: load_align_model and align; line 266-267 on failure
wx_align(t) ==
  /\ thr[t].pc = "wx_align"
  /\ \/ /\ Upd(t, [thr[t] EXCEPT !.pc = "tf_unlink", !.raised = TRUE,
                     !.log = HandleException(@, "RuntimeError", Pending(t))])
        /\ UNCHANGED whisperx_result
     \/ /\ whisperx_result' = Result(FilePath(t), TRUE, thr[t].req)
        /\ Upd(t, [thr[t] EXCEPT !.pc = "wx_settext"])
  /\ UNCHANGED <<transcription, is_mic_recording, fs, chunks_directory, nreq, lastSave>>

\* line 261-264
wx_settext(t) ==
  /\ thr[t].pc = "wx_settext"
  /\ transcription' = [transcription EXCEPT !.text = thr[t].text_combined]
  /\ Upd(t, [thr[t] EXCEPT
        !.pc = "tf_unlink",
        !.own_text = thr[t].text_combined,
        !.log = IF transcription.source # "DIRECTORY"
                  THEN @ \o <<DisplayText(thr[t].text_combined)>> ELSE @])
  /\ UNCHANGED <<is_mic_recording, whisperx_result, fs, chunks_directory, nreq, lastSave>>

(***************************************************************************)
(* _transcribe_using_google_api.                                           *)
(***************************************************************************)
\* what recognize_google returns for the chunk with index idx
ChunkText(idx) ==
  CASE idx = 0 -> "hello world"
    [] idx = 1 -> "gOOD day"
    [] idx = 2 -> "Ok"
    [] OTHER -> "x"

\* str.capitalize: first character upper case, the rest lower case
Capitalize(str) ==
  CASE str = "hello world" -> "Hello world"
    [] str = "gOOD day" -> "Good day"
    [] str = "Ok" -> "Ok"
    [] str = "x" -> "X"
    [] OTHER -> str

\* line 332
ChunkLine_NoSeparator(chunk_text) == Capitalize(chunk_text)
ChunkLine(chunk_text) == Capitalize(chunk_text) \o ". "

\* line 278-279: mkdir(exist_ok=True); it raises when the OS refuses
g_mkdir(t) ==
  /\ thr[t].pc = "g_mkdir"
  /\ \/ /\ chunks_directory' = TRUE
        /\ Upd(t, [thr[t] EXCEPT !.pc = "g_decode", !.made_dir = TRUE])
     \/ /\ Upd(t, TaskRaised(thr[t], "OSError"))
        /\ UNCHANGED chunks_directory
  /\ UNCHANGED <<transcription, is_mic_recording, whisperx_result, fs, nreq, lastSave>>

\* line 283-311: decode the file (sound stays None for an extension on no
\* list, and split_on_silence then raises) and split it into chunks
g_decode(t) ==
  /\ thr[t].pc = "g_decode"
  /\ LET content_type == FilePath(t).ext
         decodable == content_type \in AUDIO_FILE_EXTENSIONS
                        \/ content_type \in VIDEO_FILE_EXTENSIONS
     IN  \/ Upd(t, [thr[t] EXCEPT !.pc = "g_except", !.raised = TRUE])
         \/ /\ decodable
            /\ Exists(FilePath(t))
            /\ \E n \in 0..MaxChunks :
                 Upd(t, [thr[t] EXCEPT !.nchunks = n, !.idx = 0, !.pc = "g_chunk"])
  /\ UNCHANGED <<transcription, is_mic_recording, whisperx_result, fs,
                 chunks_directory, nreq, lastSave>>

\* line 314-339: one iteration of the loop over the chunks, or, after the
\* last chunk, the assignment of the text
g_chunk(t) ==
  /\ thr[t].pc = "g_chunk"
  /\ IF thr[t].idx = thr[t].nchunks
       THEN /\ transcription' = [transcription EXCEPT !.text = thr[t].transcription_text]
            /\ Upd(t, [thr[t] EXCEPT !.pc = "g_finally", !.assigned = TRUE,
                                     !.own_text = thr[t].transcription_text])
       ELSE /\ UNCHANGED transcription
            /\ \/ \* export, AudioFile or record raises
                  Upd(t, [thr[t] EXCEPT !.pc = "g_except", !.raised = TRUE])
               \/ \* recognize_google raises: continue
                  /\ chunks_directory
                  /\ Upd(t, [thr[t] EXCEPT
                        !.idx = @ + 1,
                        !.recog = Append(@, [ok |-> FALSE, text |-> ""])])
               \/ \* recognize_google returns the text of the chunk
                  /\ chunks_directory
                  /\ Upd(t, [thr[t] EXCEPT
                        !.idx = @ + 1,
                        !.transcription_text = @ \o ChunkLine(ChunkText(thr[t].idx)),
                        !.recog = Append(@, [ok |-> TRUE, text |-> ChunkText(thr[t].idx)])])
  /\ UNCHANGED <<is_mic_recording, whisperx_result, fs, chunks_directory, nreq, lastSave>>

\* the except clause with the cleanup on the success path only
g_except_NoFinally(t) ==
  /\ thr[t].pc = "g_except"
  /\ Upd(t, [thr[t] EXCEPT !.pc = "tf_unlink", !.log = @ \o <<DisplayText(Traceback)>>])
  /\ UNCHANGED <<transcription, is_mic_recording, whisperx_result, fs,
                 chunks_directory, nreq, lastSave>>

\* line 341-342
g_except(t) ==
  /\ thr[t].pc = "g_except"
  /\ Upd(t, [thr[t] EXCEPT !.pc = "g_finally", !.log = @ \o <<DisplayText(Traceback)>>])
  /\ UNCHANGED <<transcription, is_mic_recording, whisperx_result, fs,
                 chunks_directory, nreq, lastSave>>

\* the cleanup with an rmtree whose failure still takes the directory away
g_finally_FaultRemoves(t) ==
  /\ thr[t].pc = "g_finally"
  /\ \/ /\ chunks_directory
        /\ chunks_directory' = FALSE
        /\ LET is_not_dir == transcription.source # "DIRECTORY"
           IN  Upd(t, [thr[t] EXCEPT
                 !.pc = "tf_unlink",
                 !.rmtree = "ok",
                 !.log = IF transcription.text # "" /\ is_not_dir
                           THEN @ \o <<DisplayText(transcription.text)>> ELSE @])
     \/ /\ chunks_directory
        /\ chunks_directory' = FALSE
        /\ Upd(t, TaskRaised([thr[t] EXCEPT !.rmtree = "fault"], "OSError"))
     \/ /\ ~chunks_directory
        /\ UNCHANGED chunks_directory
        /\ Upd(t, TaskRaised([thr[t] EXCEPT !.rmtree = "missing"], "FileNotFoundError"))
  /\ UNCHANGED <<transcription, is_mic_recording, whisperx_result, fs, nreq, lastSave>>

\* line 344-350: shutil.rmtree raises when the directory is gone or when the
\* OS refuses, and the directory then stays as it is
g_finally(t) ==
  /\ thr[t].pc = "g_finally"
  /\ \/ /\ chunks_directory
        /\ chunks_directory' = FALSE
        /\ LET is_not_dir == transcription.source # "DIRECTORY"
           IN  Upd(t, [thr[t] EXCEPT
                 !.pc = "tf_unlink",
                 !.rmtree = "ok",
                 !.log = IF transcription.text # "" /\ is_not_dir
                           THEN @ \o <<DisplayText(transcription.text)>> ELSE @])
     \/ /\ chunks_directory
        /\ UNCHANGED chunks_directory
        /\ Upd(t, TaskRaised([thr[t] EXCEPT !.rmtree = "fault"], "OSError"))
     \/ /\ ~chunks_directory
        /\ UNCHANGED chunks_directory
        /\ Upd(t, TaskRaised([thr[t] EXCEPT !.rmtree = "missing"], "FileNotFoundError"))
  /\ UNCHANGED <<transcription, is_mic_recording, whisperx_result, fs, nreq, lastSave>>

(***************************************************************************)
(* The controller used as intended: one request at a time.                 *)
(***************************************************************************)
Next ==
  \/ \E t \in Threads : prepare_for_transcription(t)
  \/ stop_recording_from_mic
  \/ save_transcription
  \/ \E t \in Threads : mic_start(t)
  \/ \E t \in Threads : mic_loop(t)
  \/ \E t \in Threads : mic_listen(t)
  \/ \E t \in Threads : mic_end(t)
  \/ \E t \in Threads : yt_download(t)
  \/ \E t \in Threads : hp_start(t)
  \/ \E t \in Threads : tf_dispatch(t)
  \/ \E t \in Threads : wx_transcribe(t)
  \/ \E t \in Threads : wx_align(t)
  \/ \E t \in Threads : wx_settext(t)
  \/ \E t \in Threads : g_mkdir(t)
  \/ \E t \in Threads : g_decode(t)
  \/ \E t \in Threads : g_chunk(t)
  \/ \E t \in Threads : g_except(t)
  \/ \E t \in Threads : g_finally(t)
  \/ \E t \in Threads : tf_unlink(t)
  \/ \E t \in Threads : tf_autosave(t)
  \/ \E t \in Threads : hp_resume(t)
  \/ \E t \in Threads : hp_except(t)
  \/ \E t \in Threads : hp_finally(t)

Spec == Init /\ [][Next]_vars


(***************************************************************************)
(* _get_transcribable_files_from_dir as a function of the directory tree:  *)
(* a specification whose initial states are the trees of at most           *)
(* MaxTreeFiles files drawn from TreeSlots, and whose one action is the    *)
(* scan of the directory of the request.                                   *)
(***************************************************************************)
\* largest number of files in a scanned tree
MaxTreeFiles == 2

\* the directories of the trees, parents first; "other" is outside "top"
TreeDirs == <<"top", "top/sub", "top/sub/deep", "other">>

\* file names as pathlib parses them (stem, suffix): a dot-file has no suffix,
\* and the suffix is what follows the last dot
TreeNames ==
  <<[stem |-> "a", ext |-> ".mp3"], [stem |-> "b", ext |-> ".mp4"],
    [stem |-> "c", ext |-> ".txt"], [stem |-> ".mp3", ext |-> ""],
    [stem |-> "d", ext |-> ".MP3"], [stem |-> "e.mp3", ext |-> ".bak"],
    [stem |-> "f.tar", ext |-> ".wav"], [stem |-> "mp3", ext |-> ""]>>

\* every place a file of a tree can be, in the order os.walk visits them
TreeSlots ==
  [k \in 1..(Len(TreeDirs) * Len(TreeNames)) |->
     LET d == TreeDirs[((k - 1) \div Len(TreeNames)) + 1]
         n == TreeNames[((k - 1) % Len(TreeNames)) + 1]
     IN  P(d, n.stem, n.ext)]

TreePaths == {TreeSlots[k] : k \in DOMAIN TreeSlots}

\* str(dir_path)
DirName(dir_path) ==
  IF dir_path.dir = "" THEN FileName(dir_path)
                       ELSE dir_path.dir \o "/" \o FileName(dir_path)

\* directory d is dir_path or lies below it
IsUnder(d, dir_path) ==
  LET root == DirName(dir_path) \o "/"
      sub == d \o "/"
  IN  Len(sub) >= Len(root) /\ SubSeq(sub, 1, Len(root)) = root

\* os.walk(dir_path) over the files f: the existing files at or below dir_path
WalkTree(f, dir_path) ==
  SelectSeq(TreeSlots, LAMBDA p : f[p].exists /\ IsUnder(p.dir, dir_path))

\* the directories a scan is asked for
TreeRoots == {P("", "top", ""), P("top", "sub", ""), P("", "other", "")}

Init_Scan ==
  /\ \E root \in TreeRoots :
       transcription = Transcription("DIRECTORY", root, "", "WHISPERX", FALSE, FALSE, FALSE)
  /\ \E c \in [1..MaxTreeFiles -> 0..Len(TreeSlots)] :
       fs = [p \in TreePaths |->
               IF \E k \in 1..MaxTreeFiles : c[k] # 0 /\ TreeSlots[c[k]] = p
                 THEN File("media") ELSE Absent]
  /\ is_mic_recording = FALSE
  /\ whisperx_result = None
  /\ chunks_directory = FALSE
  /\ nreq = 0
  /\ thr = [t \in Threads |-> IdleThread]
  /\ lastSave = [called |-> FALSE]

\* the call of line 93 on a tree
scan_directory(t) ==
  /\ thr[t].pc = "idle"
  /\ Upd(t, [thr[t] EXCEPT
        !.pc = "scanned",
        !.files = MatchingFiles(WalkTree(fs, transcription.source_path))])
  /\ UNCHANGED <<transcription, is_mic_recording, whisperx_result, fs,
                 chunks_directory, nreq, lastSave>>

Next_Scan == \E t \in Threads : scan_directory(t)

SpecScan == Init_Scan /\ [][Next_Scan]_vars


(***************************************************************************)
(* Overlapping requests: the view calls prepare_for_transcription while    *)
(* the threads of an earlier request are still running.  Nothing in the    *)
(* controller prevents it; the threads share transcription, the files and  *)
(* the chunks directory.                                                   *)
(***************************************************************************)
\* the requests issued in the overlapping runs: valid ones for the cloud API,
\* nothing saved
OverlapRequests ==
  {tr \in Requests :
     /\ tr.method = "GOOGLE_API"
     /\ ~tr.should_subtitle /\ ~tr.should_autosave /\ ~tr.should_overwrite
     /\ tr.source = "FILE" => tr.source_path = MusicFile(1)
     /\ tr.source = "DIRECTORY" => tr.source_path = P("", "music", "")
     /\ tr.source = "YOUTUBE" => IsUrlValid(tr.youtube_url)}

\* prepare_for_transcription, called whatever the earlier requests are doing;
\* a DIRECTORY request is issued as the first request only
prepare_overlapping(t) ==
  /\ nreq < MaxRequests
  /\ thr[t].pc \in {"idle", "done"}
  /\ \A u \in Threads : u < t => thr[u].pc \notin {"idle", "done"}
  /\ \E tr \in OverlapRequests :
       /\ tr.source = "DIRECTORY" => nreq = 0
       /\ Prepare(t, tr)

Next_Overlap ==
  \/ \E t \in Threads : prepare_overlapping(t)
  \/ stop_recording_from_mic
  \/ \E t \in Threads : mic_start(t)
  \/ \E t \in Threads : mic_loop(t)
  \/ \E t \in Threads : mic_listen(t)
  \/ \E t \in Threads : mic_end(t)
  \/ \E t \in Threads : yt_download(t)
  \/ \E t \in Threads : hp_start(t)
  \/ \E t \in Threads : tf_dispatch(t)
  \/ \E t \in Threads : g_mkdir(t)
  \/ \E t \in Threads : g_decode(t)
  \/ \E t \in Threads : g_chunk(t)
  \/ \E t \in Threads : g_except(t)
  \/ \E t \in Threads : g_finally(t)
  \/ \E t \in Threads : tf_unlink(t)
  \/ \E t \in Threads : tf_autosave(t)
  \/ \E t \in Threads : hp_resume(t)
  \/ \E t \in Threads : hp_except(t)
  \/ \E t \in Threads : hp_finally(t)

SpecOverlap == Init /\ [][Next_Overlap]_vars


(***************************************************************************)
(* Properties.                                                             *)
(***************************************************************************)
\* the on_processed_transcription notifications of thread t's request
Processed(t) ==
  SelectSeq(thr[t].log, LAMBDA e : e.ev = "on_processed_transcription")

\* what display_text was called with for thread t's request
Displayed(t) ==
  {thr[t].log[k].msg : k \in {j \in 1..Len(thr[t].log) : thr[t].log[j].ev = "display_text"}}

GooglePcs == {"g_mkdir", "g_decode", "g_chunk", "g_except", "g_finally"}

\* C1: a request whose worker runs _handle_transcription_process notifies
\* on_processed_transcription exactly once, never while a per-file task is
\* unfinished and never a second time.
C1_ProcessedExactlyOnceAfterAllTasks ==
  \A t \in Threads :
    thr[t].worker =>
      /\ Len(Processed(t)) <= 1
      /\ \A k \in 1..Len(Processed(t)) : Processed(t)[k].pending = 0
      /\ thr[t].pc = "done" => Len(Processed(t)) = 1

\* C2: the success value of the notification that ends a request is true
\* exactly when the final transcription.text is non-empty.
C2_SuccessIffTextNonEmpty ==
  \A t \in Threads :
    (thr[t].worker /\ thr[t].pc = "done") =>
      Processed(t)[Len(Processed(t))].success = (transcription.text # "")

\* a directory tree without any file of an allow-listed extension
HasNoMatchingFile(dir_path) ==
  \A k \in 1..Len(Walk(dir_path)) :
    Walk(dir_path)[k].ext \notin (AUDIO_FILE_EXTENSIONS \cup VIDEO_FILE_EXTENSIONS)

EmptyDirectoryRequest(t) ==
  /\ thr[t].worker
  /\ transcription.source = "DIRECTORY"
  /\ HasNoMatchingFile(transcription.source_path)

C4_TemporaryInputRemoved ==
  \A t \in Threads :
    (/\ thr[t].pc = "done"
     /\ thr[t].reached_transcribe
     /\ transcription.source \in {"MIC", "YOUTUBE"})
      => ~fs[transcription.source_path].exists

\* an invocation of the cloud backend by thread t that created the working
\* directory has returned or raised
InvocationEnded(t) == thr[t].made_dir /\ thr[t].pc \notin GooglePcs

C6_SavePolicy ==
  (lastSave.called /\ lastSave.dest # NoPath) =>
    /\ (lastSave.existed /\ ~lastSave.overwrite)
         => fs[lastSave.dest] = File(lastSave.before)
    /\ (lastSave.overwrite \/ ~lastSave.existed)
         => fs[lastSave.dest] = File(lastSave.text)

\* a save that found another text at the destination and had to keep it
C6_Witness ==
  /\ lastSave.called
  /\ lastSave.dest # NoPath
  /\ lastSave.existed
  /\ ~lastSave.overwrite
  /\ lastSave.before # lastSave.text
  /\ lastSave.text # ""

\* C7: a save writes subtitle files only when should_subtitle is set and the
\* local model produced result data for the transcription being saved (in
\* the same request, for the file being saved); a save of a cloud-API request
\* with should_subtitle set writes no subtitle file and raises nothing.
C7_SubtitlesOnlyFromOwnTimingData ==
  lastSave.called =>
    /\ lastSave.wrote # {} =>
         /\ lastSave.should_subtitle
         /\ ~lastSave.result.none
         /\ lastSave.result.req = lastSave.req
         /\ lastSave.result.file = lastSave.file
    /\ (lastSave.method = "GOOGLE_API" /\ lastSave.should_subtitle) =>
         /\ lastSave.wrote = {}
         /\ lastSave.raised = ""

\* the text the claim expects from the outcomes of the chunks
RECURSIVE ExpectedText(_)
ExpectedText(recog) ==
  IF recog = <<>> THEN ""
  ELSE (IF Head(recog).ok THEN Capitalize(Head(recog).text) \o ". " ELSE "")
         \o ExpectedText(Tail(recog))

\* C8: in the cloud backend a chunk whose recognition raises contributes
\* nothing and the loop goes on: the text built so far is the in-order
\* concatenation of the capitalized texts, each followed by ". ", of the
\* chunks recognized so far, every chunk visited counts, and when the loop has
\* ended transcription.text is that concatenation over all the chunks.
C8_TextIsConcatenationOfRecognizedChunks ==
  \A t \in Threads :
    /\ thr[t].pc = "g_chunk" =>
         /\ Len(thr[t].recog) = thr[t].idx
         /\ thr[t].transcription_text = ExpectedText(thr[t].recog)
    /\ (thr[t].pc = "g_finally" /\ thr[t].assigned) =>
         /\ Len(thr[t].recog) = thr[t].nchunks
         /\ transcription.text = ExpectedText(thr[t].recog)

\* the first chunk failed, a later one was recognized, the text is assigned
C8_Witness ==
  \E t \in Threads :
    /\ thr[t].pc = "g_finally"
    /\ thr[t].assigned
    /\ Len(thr[t].recog) >= 2
    /\ ~thr[t].recog[1].ok
    /\ thr[t].recog[2].ok

\* C9: when a recording ends with zero captured segments, the view is sent
\* on_processed_transcription(success=False), no audio file is written,
\* source_path is not set and no transcription worker is started.
C9_EmptyRecordingFails ==
  [][\A t \in Threads :
       (thr[t].pc = "mic_end" /\ thr[t].audio_data = 0 /\ thr'[t] # thr[t]) =>
         /\ thr'[t].pc = "done"
         /\ ~thr'[t].worker
         /\ thr'[t].log = thr[t].log \o <<OnProcessed(FALSE, 0), DisplayText("ValueError")>>
         /\ fs' = fs
         /\ transcription' = transcription]_vars

C9_Witness ==
  \E t \in Threads :
    /\ transcription.source = "MIC"
    /\ transcription.source_path = NoPath
    /\ thr[t].pc = "done"
    /\ thr[t].audio_data = 0
    /\ thr[t].log = <<OnProcessing, OnProcessed(FALSE, 0), DisplayText("ValueError")>>

\* C10: every exception raised while a request is served is caught and
\* reported to the view as a failure: on_processed_transcription(success=False)
\* together with a displayed message.
C10_EveryExceptionReportedAsFailure ==
  \A t \in Threads :
    (thr[t].pc = "done" /\ thr[t].raised) =>
      /\ \E k \in 1..Len(Processed(t)) : ~Processed(t)[k].success
      /\ Displayed(t) \cap (Reprs \cup {Traceback}) # {}

\* C11: a validation error (invalid file selection, empty directory, malformed
\* YouTube URL) is raised and reported inside prepare_for_transcription, when
\* no thread has been started for the request.
C11_ValidationBeforeAnyThread ==
  \A t \in Threads :
    thr[t].validation # "" => thr[t].threads = 0

\* C13: once stop_recording_from_mic has been called for a MIC request whose
\* prepare_for_transcription has returned, the recording flag stays down until
\* the capture loop has left: the loop cannot enter another listen call on a
\* flag raised again after the stop.
C13_StopSignalNeverLost ==
  \A t \in Threads :
    (thr[t].pc \in MicPcs /\ thr[t].stop_called) => ~is_mic_recording

\* C12: for every directory tree, the scan returns exactly the files at or
\* below the directory whose extension (the suffix of the path) is on the
\* audio/video allow-lists, each once, at any nesting depth, and no other file.
C12_ScanReturnsExactlyMatchingFiles ==
  \A t \in Threads :
    thr[t].pc = "scanned" =>
      LET matching == {p \in TreePaths :
                         /\ fs[p].exists
                         /\ IsUnder(p.dir, transcription.source_path)
                         /\ p.ext \in AUDIO_FILE_EXTENSIONS \cup VIDEO_FILE_EXTENSIONS}
          files == thr[t].files
      IN  /\ {files[k] : k \in 1..Len(files)} = matching
          /\ Len(files) = Cardinality(matching)

\* the positions inside a backend call
BackendPcs == {"wx_transcribe", "wx_align", "wx_settext"} \cup GooglePcs

\* C14: in a DIRECTORY request with K >= 2 matching files the K per-file
\* transcriptions are dispatched at once and run concurrently: while the
\* backend call of one file is in progress the transcription of every file
\* of the batch has been started; and the join releases only when all K have
\* finished.
C14_DispatchedAtOnceJoinAfterAll ==
  \A t \in Threads :
    (transcription.source = "DIRECTORY" /\ Len(thr[t].files) >= 2) =>
      /\ thr[t].pc \in BackendPcs => thr[t].backend_calls = Len(thr[t].files)
      /\ thr[t].pc \in {"hp_resume", "hp_except", "hp_finally", "done"} =>
           /\ thr[t].backend_calls = Len(thr[t].files)
           /\ Pending(t) = 0

\* a cloud-API invocation that has created the chunks directory and is
\* decoding into it or exporting and reading chunk files in it
InChunkWork(u) == thr[u].made_dir /\ thr[u].pc \in {"g_decode", "g_chunk"}

\* C15: the chunks directory is one directory shared by all invocations, with
\* no mutual exclusion: it is taken away from under an invocation that is
\* still working in it, and then by nothing but the cleanup (rmtree) of
\* another invocation.  The witness is the state the claim says is reachable.
C15_SharedDirectoryRemovedByOtherCleanup ==
  [][\A u \in Threads :
       (InChunkWork(u) /\ thr'[u] = thr[u] /\ chunks_directory /\ ~chunks_directory') =>
         \E t \in Threads \ {u} : thr[t].pc = "g_finally" /\ thr'[t].rmtree = "ok"]_vars

\* one invocation's cleanup has removed the directory while the other is in
\* the middle of its loop over the chunks
C15_Witness ==
  \E t \in Threads, u \in Threads :
    /\ t # u
    /\ thr[t].pc = "tf_unlink" /\ thr[t].rmtree = "ok"
    /\ InChunkWork(u) /\ thr[u].pc = "g_chunk"
    /\ 0 < thr[u].idx /\ thr[u].idx < thr[u].nchunks
    /\ ~chunks_directory

\* C19: in every interleaving of requests the controller unlinks nothing but
\* the temporary inputs it wrote for a MIC or YOUTUBE acquisition: every file
\* of the user (the source of a FILE request, the files of a scanned
\* directory) stays on disk.
C19_OnlyTemporaryInputsUnlinked ==
  /\ \A p \in UserFiles : fs[p].exists
  /\ \A t \in Threads : thr[t].unlinked \in {NoPath, MicOutput, YtAudio}

\* the worker of a FILE or DIRECTORY request finds the shared record replaced
\* by a MIC or YOUTUBE request and executes the unlink of line 125
C19_Witness ==
  \E t \in Threads :
    /\ thr[t].worker /\ thr[t].threads = 1
    /\ thr[t].pc = "tf_autosave"
    /\ FilePath(t) \in UserFiles
    /\ thr[t].unlinked \in {MicOutput, YtAudio}

\* C16: a call of _generate_subtitles applies the overwrite flag to each of
\* srt and vtt on its own: a format is written when should_overwrite is set or
\* its file does not exist yet, and a file that exists is left as it was when
\* should_overwrite is not set.
C16_OverwritePerSubtitleFormat ==
  (lastSave.called /\ lastSave.should_subtitle /\ lastSave.dest # NoPath) =>
    \A fmt \in {"srt", "vtt"} :
      IF lastSave.overwrite \/ ~lastSave.sub_before[fmt].exists
        THEN /\ fmt \in lastSave.wrote
             /\ fs[SubOf(lastSave.dest, fmt)].exists
        ELSE /\ fmt \notin lastSave.wrote
             /\ fs[SubOf(lastSave.dest, fmt)] = lastSave.sub_before[fmt]

\* C17: the result blob of the local-model backend is discarded once the
\* subtitle export of its transcription has completed or been skipped: when a
\* request has ended and save_transcription has run, the controller holds no
\* blob, and a save never finds the blob of an earlier request.
C17_ResultBlobDiscarded ==
  /\ (Quiescent /\ lastSave.called) => whisperx_result.none
  /\ lastSave.called =>
       (lastSave.result.none \/ lastSave.result.req = lastSave.req)

\* C18: a request whose threads have all ended has been answered with at least
\* one on_processed_transcription notification, whatever the source kind and
\* the outcome of validation, acquisition and backend.
C18_ProcessingEventuallyProcessed ==
  \A t \in Threads :
    thr[t].pc = "done" => Len(Processed(t)) >= 1

\* C20: in a DIRECTORY request with should_autosave, the text the autosave
\* writes to the .txt beside a file is the text the backend assigned for that
\* file (nothing written under its name comes from another file of the batch).
C20_AutosavedTextIsOwnText ==
  (/\ lastSave.called
   /\ lastSave.by \in Threads
   /\ transcription.source = "DIRECTORY"
   /\ lastSave.dest # NoPath
   /\ ShouldWrite(lastSave.overwrite, lastSave.existed)) =>
    /\ lastSave.text = lastSave.produced
    /\ fs[lastSave.dest].data = lastSave.produced

====
